---------------------------- MODULE Spec2Model ----------------------------
(***************************************************************************)
(* A model of unicorn_debugger: the command interpreter (src/debugger.rs)  *)
(* and the breakpoint / interrupt hooks and run control (src/engine.rs).   *)
(*                                                                         *)
(* Script text is modelled as it is in the source: a file is a sequence of *)
(* lines, a line is a sequence of one-character strings, and trimming,     *)
(* prefix tests, whitespace splitting and hexadecimal conversion are       *)
(* computed on the characters.                                             *)
(*                                                                         *)
(* The CPU emulation engine is an external collaborator.  Its contract is  *)
(* the one the source relies on: emu_start(begin, until, timeout, count)   *)
(* invokes the code hook before every instruction, a halt requested by the *)
(* code hook leaves the instruction pointer on the instruction that was    *)
(* about to run, the run returns when the until address is reached or      *)
(* count instructions have been retired, and the interrupt hook runs while *)
(* a software-interrupt instruction is retired.  The emulated program is   *)
(* arbitrary: every retired instruction may transfer control to any        *)
(* modelled address and may be a software interrupt with any modelled      *)
(* number and AX value.                                                    *)
(***************************************************************************)
EXTENDS Integers, Sequences, FiniteSets, TLC

\* Bounds of the model.
MaxAddr == 2        \* program addresses are 1..MaxAddr, and the until address
MaxRetired == 3     \* instructions the emulated program may retire
MaxStarts == 4      \* calls of emu_start in one session
MaxReads == 3       \* lines read by the interactive loop
MaxLines == 3       \* lines of a batch script that is executed
MaxParseLines == 4  \* lines of a batch script that is only parsed
MaxVec == 2         \* interrupt vectors 0..MaxVec of the low-memory table
MaxAddrLen == 5     \* characters of an address text

\* engine.rs: the `until` argument of emu_start.
EmuUntil == 8192

Addrs == (1..MaxAddr) \cup {EmuUntil}

-----------------------------------------------------------------------------
(* Text.                                                                   *)

K_q == <<"q">>
K_quit == <<"q", "u", "i", "t">>
K_exit == <<"e", "x", "i", "t">>
K_p == <<"p">>
K_print == <<"p", "r", "i", "n", "t">>
K_p_sp == <<"p", " ">>
K_print_sp == <<"p", "r", "i", "n", "t", " ">>
K_r == <<"r">>
K_run == <<"r", "u", "n">>
K_n == <<"n">>
K_next == <<"n", "e", "x", "t">>
K_c == <<"c">>
K_continue == <<"c", "o", "n", "t", "i", "n", "u", "e">>
K_logon == <<"l", "o", "g", "o", "n">>
K_logoff == <<"l", "o", "g", "o", "f", "f">>
K_b_sp == <<"b", " ">>
K_break_sp == <<"b", "r", "e", "a", "k", " ">>
K_while == <<"w", "h", "i", "l", "e">>
K_break == <<"b", "r", "e", "a", "k">>
K_lbrace == <<"{">>
K_rbrace == <<"}">>

\* The lines the scripts of the model are made of.
L_blank == <<>>
L_comment == <<"#", " ", "x">>
L_run == <<"r">>
L_cont == <<"c">>
L_next == <<"n">>
L_print == <<"p">>
L_print1 == <<"p", " ", "1">>
L_logon == <<"l", "o", "g", "o", "n">>
L_logoff == <<"l", "o", "g", "o", "f", "f">>
L_break1 == <<"b", " ", "1">>
L_break2 == <<"b", " ", "2">>
L_quit == <<"q">>
L_while1 == <<"w", "h", "i", "l", "e", " ", "b", "r", "e", "a", "k", " ", "1", " ", "{">>
L_while2 == <<"w", "h", "i", "l", "e", " ", "b", "r", "e", "a", "k", " ", "2", " ", "{">>
L_close == <<"}">>
L_bogus == <<"b", "o", "g", "u", "s">>
L_whilebad == <<"w", "h", "i", "l", "e", " ", "1", " ", "{">>

\* char::is_whitespace, on the characters of the model
IsSpace(c) == c = " "

RECURSIVE TrimStart(_)
TrimStart(s) ==
    IF s # <<>> /\ IsSpace(Head(s)) THEN TrimStart(Tail(s)) ELSE s

RECURSIVE TrimEnd(_)
TrimEnd(s) ==
    IF s # <<>> /\ IsSpace(s[Len(s)]) THEN TrimEnd(SubSeq(s, 1, Len(s) - 1)) ELSE s

\* str::trim
Trim(s) == TrimEnd(TrimStart(s))

\* str::starts_with
StartsWith(s, p) == Len(s) >= Len(p) /\ SubSeq(s, 1, Len(p)) = p

\* str::split_whitespace: the maximal runs of non-whitespace characters
RECURSIVE SplitWs(_, _, _)
SplitWs(s, cur, acc) ==
    IF s = <<>>
    THEN IF cur = <<>> THEN acc ELSE Append(acc, cur)
    ELSE IF IsSpace(Head(s))
         THEN SplitWs(Tail(s), <<>>, IF cur = <<>> THEN acc ELSE Append(acc, cur))
         ELSE SplitWs(Tail(s), Append(cur, Head(s)), acc)

SplitWhitespace(s) == SplitWs(s, <<>>, <<>>)

\* str::split_once: the text before and after the first occurrence of c
SplitOnce(s, c) ==
    LET at == {i \in 1..Len(s) : s[i] = c}
    IN  IF at = {}
        THEN [found |-> FALSE, left |-> s, right |-> <<>>]
        ELSE LET i == CHOOSE j \in at : \A k \in at : j <= k
             IN  [found |-> TRUE,
                  left |-> SubSeq(s, 1, i - 1),
                  right |-> SubSeq(s, i + 1, Len(s))]

\* char::to_digit(16); 16 stands for "not a digit"
HexVal(c) ==
    CASE c = "0" -> 0 [] c = "1" -> 1 [] c = "2" -> 2 [] c = "3" -> 3
      [] c = "4" -> 4 [] c = "5" -> 5 [] c = "6" -> 6 [] c = "7" -> 7
      [] c = "8" -> 8 [] c = "9" -> 9
      [] c \in {"a", "A"} -> 10 [] c \in {"b", "B"} -> 11
      [] c \in {"c", "C"} -> 12 [] c \in {"d", "D"} -> 13
      [] c \in {"e", "E"} -> 14 [] c \in {"f", "F"} -> 15
      [] OTHER -> 16

RECURSIVE HexDigits(_, _)
HexDigits(s, acc) ==
    IF s = <<>> THEN [ok |-> TRUE, val |-> acc]
    ELSE IF HexVal(Head(s)) = 16 THEN [ok |-> FALSE, val |-> 0]
    ELSE HexDigits(Tail(s), acc * 16 + HexVal(Head(s)))

\* u64::from_str_radix(s, 16): an optional '+', then at least one digit.
\* (The texts of the model are far too short to overflow 64 bits.)
FromStrRadix16(s) ==
    LET digits == IF s # <<>> /\ Head(s) = "+" THEN Tail(s) ELSE s
    IN  IF digits = <<>> THEN [ok |-> FALSE, val |-> 0] ELSE HexDigits(digits, 0)

\* (a parse_addr that adds the offset to the segment as it is)
parse_addr_Flat(addr) ==
    LET addrs == SplitOnce(addr, ":")
    IN  IF addrs.found
        THEN LET segment == FromStrRadix16(addrs.left)
                 offset == FromStrRadix16(addrs.right)
             IN  IF ~segment.ok THEN segment
                 ELSE IF ~offset.ok THEN offset
                 ELSE [ok |-> TRUE, val |-> segment.val + offset.val]
        ELSE FromStrRadix16(addr)
\* Ast::parse_addr: "seg:off" is seg * 16 + off, anything else a bare value
parse_addr(addr) ==
    LET addrs == SplitOnce(addr, ":")
    IN  IF addrs.found
        THEN LET segment == FromStrRadix16(addrs.left)
                 offset == FromStrRadix16(addrs.right)
             IN  IF ~segment.ok THEN segment
                 ELSE IF ~offset.ok THEN offset
                 ELSE [ok |-> TRUE, val |-> segment.val * 16 + offset.val]
        ELSE FromStrRadix16(addr)

-----------------------------------------------------------------------------
(* Commands and the parser.                                                *)

\* enum Command.  text is the String of Print and Break, addr and body
\* belong to WhileBreak.
MkCmd(op, text) == [op |-> op, text |-> text, addr |-> 0, body |-> <<>>]
MkWhileBreak(addr, commands) ==
    [op |-> "WhileBreak", text |-> <<>>, addr |-> addr, body |-> commands]
NoCmd == MkCmd("none", <<>>)

\* The outcomes of parse_command: None, Some((ParseVal, next index)), or a panic.
PNone == [tag |-> "none", kind |-> "", cmd |-> NoCmd, next |-> 0, err |-> "", line |-> 0]
PSome(kind, cmd, next) ==
    [tag |-> "some", kind |-> kind, cmd |-> cmd, next |-> next, err |-> "", line |-> 0]
PPanic(err, line) ==
    [tag |-> "panic", kind |-> "", cmd |-> NoCmd, next |-> 0, err |-> err, line |-> line]

\* The command of a line that is not a while header
SimpleCommand(line) ==
    IF line = K_q \/ line = K_quit \/ line = K_exit THEN MkCmd("Quit", <<>>)
    ELSE IF line = K_p \/ line = K_print THEN MkCmd("Print", <<>>)
    ELSE IF StartsWith(line, K_p_sp) \/ StartsWith(line, K_print_sp)
         THEN MkCmd("Print", line)
    ELSE IF line = K_r \/ line = K_run THEN MkCmd("Run", <<>>)
    ELSE IF line = K_n \/ line = K_next THEN MkCmd("Next", <<>>)
    ELSE IF line = K_c \/ line = K_continue THEN MkCmd("Continue", <<>>)
    ELSE IF line = K_logon THEN MkCmd("Logon", <<>>)
    ELSE IF line = K_logoff THEN MkCmd("Logoff", <<>>)
    ELSE IF StartsWith(line, K_b_sp) \/ StartsWith(line, K_break_sp)
         THEN MkCmd("Break", line)
    ELSE NoCmd

\* The checks of a while header, in the order parse_while makes them
WhileHeaderError(parts) ==
    IF Len(parts) < 4 THEN "while_parts"
    ELSE IF parts[2] # K_break THEN "while_not_break"
    ELSE IF ~parse_addr(parts[3]).ok THEN "while_addr"
    ELSE IF parts[4] # K_lbrace THEN "while_brace"
    ELSE ""

\* What parse_command adds to the index of a while header: parse_while
\* returns the index of the line after the block and parse_command uses it
\* as the size of the command.
WhileSize(idx, after) == after

RECURSIVE parse_command(_, _, _), parse_while(_, _), WhileBody(_, _, _)

\* Ast::parse_command.  Indices are 0-based as in the source; lines[idx] of
\* the source is lines[idx + 1] here.
parse_command(idx, lines, in_block) ==
    IF idx >= Len(lines) THEN PNone
    ELSE LET line == Trim(lines[idx + 1])
         IN  IF line = <<>> \/ Head(line) = "#" THEN PSome("comment", NoCmd, idx + 1)
             ELSE IF in_block /\ line = K_rbrace THEN PSome("blockend", NoCmd, idx + 1)
             ELSE IF SimpleCommand(line).op # "none"
                  THEN PSome("command", SimpleCommand(line), idx + 1)
             ELSE IF StartsWith(line, K_while)
                  THEN LET w == parse_while(idx, lines)
                       IN  IF w.tag = "panic" THEN w
                           ELSE PSome("command", w.cmd, idx + WhileSize(idx, w.next))
             ELSE PPanic("unknown_command", idx + 1)

\* The loop of parse_while over the lines of the block
WhileBody(idx, lines, commands) ==
    LET r == parse_command(idx, lines, TRUE)
    IN  IF r.tag = "panic" THEN r
        ELSE IF r.tag = "none" THEN PPanic("block_end", 0)
        ELSE IF r.kind = "blockend"
             THEN PSome("blockend", [NoCmd EXCEPT !.body = commands], r.next)
        ELSE WhileBody(r.next, lines,
                       IF r.kind = "command" THEN Append(commands, r.cmd) ELSE commands)

\* Ast::parse_while: (Command, index of the line after the closing brace)
parse_while(idx, lines) ==
    LET parts == SplitWhitespace(Trim(lines[idx + 1]))
        herr == WhileHeaderError(parts)
    IN  IF herr # "" THEN PPanic(herr, idx + 1)
        ELSE LET b == WhileBody(idx + 1, lines, <<>>)
             IN  IF b.tag = "panic" THEN b
                 ELSE PSome("command",
                            MkWhileBreak(parse_addr(parts[3]).val, b.cmd.body),
                            b.next)

\* The loop of Ast::new
RECURSIVE AstLoop(_, _, _)
AstLoop(idx, lines, commands) ==
    LET r == parse_command(idx, lines, FALSE)
    IN  IF r.tag = "panic" THEN [ok |-> FALSE, commands |-> <<>>, err |-> r.err, line |-> r.line]
        ELSE IF r.tag = "none" THEN [ok |-> TRUE, commands |-> commands, err |-> "", line |-> 0]
        ELSE AstLoop(r.next, lines,
                     IF r.kind = "command" THEN Append(commands, r.cmd) ELSE commands)

\* Ast::new
AstNew(lines) == AstLoop(0, lines, <<>>)

-----------------------------------------------------------------------------
(* The session: Debugger, Engine, EngineData and the emulated program.     *)

VARIABLES
    driver,       \* "file": Debugger::run_file, "repl": Debugger::repl
    lines,        \* the lines of the script file (file.lines())
    ast,          \* the outcome of the last Ast::new
    pc,           \* where the session driver is
    stack,        \* the active run_commands calls, innermost last
    breaks,       \* EngineData.breaks: address -> EngineBreak.intr
    while_break,  \* EngineData.while_break: <<>> or <<[started, addr]>>
    exited,       \* EngineData.exited
    verbose,      \* EngineData.verbose
    ip,           \* linear address of the next instruction (cs * 16 + ip)
    emu,          \* the engine: "idle", "hook" (before the code hook), "exec"
    limit,        \* the count argument of the emu_start in progress
    retired,      \* instructions retired so far
    starts,       \* calls of emu_start so far
    reads,        \* lines read by the interactive loop so far
    visits,       \* per breakpoint: code hook invocations since it was registered
    lastStop,     \* why the last run returned ("none" while it has not)
    startedFrom,  \* lastStop when the last run was started
    progressed,   \* the last run retired an instruction
    completions,  \* loop-completion halts since the loop session was registered
    fatalSeen,    \* an interrupt outside the supported services was raised
    anyExec,      \* some command has been executed
    targetHit,    \* the run has halted at the target of the loop session since
                  \* the session was registered
    twin,         \* breaks and while_break of a session that is given the same
                  \* commands and hook invocations and never has verbose set
    bytes,        \* the buffer given to Header::new
    header,       \* the Header made from it, none before
    mem,          \* engine memory: the bytes at linear addresses 0..4*MaxVec+3
    lastInt       \* the interrupt hook invocation of the last step, if any:
                  \* its number, the registers it read and those it wrote

vars == <<driver, lines, ast, pc, stack, breaks, while_break, exited, verbose,
          ip, emu, limit, retired, starts, reads, visits, lastStop,
          startedFrom, progressed, completions, fatalSeen, anyExec, targetHit,
          twin, bytes, header, mem, lastInt>>

engineData == <<breaks, while_break, exited, verbose>>
ghostHook == <<visits, completions, targetHit, twin>>
loader == <<bytes, header>>

\* The lines of the scripts of each driver
ReplLines == {L_run, L_cont, L_next, L_print, L_print1, L_logon, L_logoff,
              L_break1, L_break2, L_quit, L_while1, L_bogus, L_blank}
FileLines == {L_cont, L_next, L_break2, L_while1, L_while2, L_close, L_print1,
              L_bogus}
ParseLines == {L_blank, L_comment, L_cont, L_break1, L_while1, L_close,
               L_bogus, L_whilebad}

Scripts(S, n) == UNION {[1..k -> S] : k \in 0..n}

\* Longer batch scripts with nested while blocks.  The blank line after the
\* closing brace of an inner block is one the parser passes over.
NestedScripts ==
    {<<L_while1, L_quit, L_close, L_cont>>,
     <<L_while1, L_while2, L_quit, L_close, L_blank, L_cont, L_close, L_cont>>}

\* Batch scripts in which a while block is followed by a resume command, with
\* a second breakpoint registered before the block or in its body.  The
\* line after a block whose header is the second line is one the parser
\* passes over, whatever it holds.
FollowedScripts ==
    {<<L_break2, L_while1, L_close, L_blank, L_cont>>,
     <<L_break2, L_while1, L_close, L_bogus, L_cont>>,
     <<L_while1, L_break2, L_close, L_cont>>}

NoAst == [ok |-> TRUE, commands |-> <<>>, err |-> "", line |-> 0]

\* No interrupt hook invocation in the last step
NoInt == <<>>

\* A step outside the interrupt hook: engine memory is left alone
ShimIdle == lastInt' = NoInt /\ mem' = mem

\* Option<(bool, u64)>
None == <<>>
Some(started, addr) == <<[started |-> started, addr |-> addr]>>

\* program.rs: the last byte Header::new reads is bytes[27]
HeaderLen == 28

\* No Header yet
NoHeader == <<>>

\* LittleEndian::read_u16(buf)
\* (a read that takes the first byte for the high one)
read_u16_BigEndian(buf) == 256 * buf[1] + buf[2]
read_u16(buf) == buf[1] + 256 * buf[2]

\* &bytes[from..to], for a buffer that is long enough
Slice(buf, from, to) == SubSeq(buf, from + 1, to)

\* Header::new
Header_new(buf) ==
    [last_page_bytes |-> read_u16(Slice(buf, 2, 4)),
     pages_in_file |-> read_u16(Slice(buf, 4, 6)),
     relocations |-> read_u16(Slice(buf, 6, 8)),
     header_size |-> read_u16(Slice(buf, 8, 10)),
     min_allocation |-> read_u16(Slice(buf, 10, 12)),
     max_allocation |-> read_u16(Slice(buf, 12, 14)),
     initial_ss |-> read_u16(Slice(buf, 14, 16)),
     initial_sp |-> read_u16(Slice(buf, 16, 18)),
     checksum |-> read_u16(Slice(buf, 18, 20)),
     initial_ip |-> read_u16(Slice(buf, 20, 22)),
     initial_cs |-> read_u16(Slice(buf, 22, 24)),
     relocation_table |-> read_u16(Slice(buf, 24, 26)),
     overlay |-> read_u16(Slice(buf, 26, 28))]

\* EngineData::new, and the call stack before the driver starts
InitSession ==
    /\ ast = NoAst
    /\ pc = "start"
    /\ stack = <<>>
    /\ breaks = << >>
    /\ while_break = None
    /\ exited = FALSE
    /\ verbose = FALSE
    /\ ip \in Addrs
    /\ emu = "idle"
    /\ limit = 0
    /\ retired = 0
    /\ starts = 0
    /\ reads = 0
    /\ visits = << >>
    /\ lastStop = "none"
    /\ startedFrom = "none"
    /\ progressed = FALSE
    /\ completions = 0
    /\ fatalSeen = FALSE
    /\ anyExec = FALSE
    /\ targetHit = FALSE
    /\ twin = [breaks |-> << >>, while_break |-> None]
    /\ mem = [a \in 0..(4 * MaxVec + 3) |-> 0]
    /\ lastInt = NoInt

\* The session starts with a program that is loaded; its header is not
\* looked at again.
Init ==
    /\ bytes = <<>>
    /\ header = NoHeader
    /\ driver \in {"file", "repl"}
    /\ lines \in IF driver = "file"
                 THEN Scripts(FileLines, MaxLines) \cup NestedScripts
                          \cup FollowedScripts
                 ELSE {<<>>}
    /\ InitSession

\* One call of run_commands: its commands, the index of the current one,
\* whether the current one is a WhileBreak whose loop is running, and for
\* that loop the halts at its address and the executions of its body.
Frame(commands) ==
    [cmds |-> commands, i |-> 1, inloop |-> FALSE, halts |-> 0, runs |-> 0]

Top == stack[Len(stack)]
Cur == Top.cmds[Top.i]
SetTop(f) == [stack EXCEPT ![Len(stack)] = f]
Advance == SetTop([Top EXCEPT !.i = @ + 1, !.inloop = FALSE, !.halts = 0, !.runs = 0])

AtCommand(op) ==
    /\ pc = "fetch"
    /\ stack # <<>>
    /\ ~Top.inloop
    /\ Top.i <= Len(Top.cmds)
    /\ Cur.op = op

-----------------------------------------------------------------------------
(* Engine.                                                                 *)

\* Engine::start (count 0) and Engine::step (count 1): emu_start from the
\* current instruction pointer, until EmuUntil.  Nothing runs when the
\* instruction pointer is already at the until address.
EmuStart(count) ==
    /\ starts < MaxStarts
    /\ starts' = starts + 1
    /\ limit' = count
    /\ startedFrom' = lastStop
    /\ progressed' = FALSE
    /\ IF ip = EmuUntil
       THEN emu' = "idle" /\ lastStop' = "until"
       ELSE emu' = "hook" /\ lastStop' = "none"

\* (a driver that does not test exited())
ExitedCheck_Never == FALSE
\* The exited() test of Debugger::run, cont and next
ExitedCheck == exited

\* Debugger::run / cont / next: exit(0) once the program has exited, else
\* start the engine; then is the driver's state while the engine runs.
Resume(count, then) ==
    IF ExitedCheck
    THEN /\ pc' = "exit0"
         /\ UNCHANGED <<emu, limit, starts, startedFrom, progressed, lastStop>>
    ELSE /\ pc' = then
         /\ EmuStart(count)

\* (an insert that keeps the entry an address already has)
AddBreak_KeepOld(b, addr) ==
    [a \in DOMAIN b \cup {addr} |-> IF a \in DOMAIN b THEN b[a] ELSE FALSE]
\* EngineData::add_break(EngineBreak::new(addr)): insert, replacing
AddBreak(b, addr) == [a \in DOMAIN b \cup {addr} |-> IF a = addr THEN FALSE ELSE b[a]]
ResetVisits(v, addr) == [a \in DOMAIN v \cup {addr} |-> IF a = addr THEN 0 ELSE v[a]]

\* The code hook's halt decision at addr, for the registry b and the loop
\* session wb of the session it runs in.
HookHasBreak(b, addr) == addr \in DOMAIN b
\* (a hook whose breakpoints halt only while a loop session is registered)
HookBreakHalts_InLoop(b, wb, addr) == ~b[addr] /\ wb # None
HookBreakHalts(b, wb, addr) == ~b[addr]
\* (a hook that marks the breakpoint instead of toggling it)
HookIntrAfter_Set(b, addr) == TRUE
HookIntrAfter(b, addr) == ~b[addr]
\* (a hook that does not wait for the target before completing the loop)
HookCompletes_Unarmed(wb) == wb # None
HookCompletes(wb) == wb # None /\ wb[1].started
\* (a hook that arms the session at every breakpoint halt)
HookArms_AnyBreak(wb, addr) == wb # None
HookArms(wb, addr) == wb # None /\ wb[1].addr = addr

\* What one invocation of the hook at addr requests ("break" and
\* "completion" are emu_stop, "none" lets the instruction run) and what it
\* leaves in EngineData
HookDecision(b, wb, addr) ==
    IF HookHasBreak(b, addr)
    THEN [stop |-> IF HookBreakHalts(b, wb, addr) THEN "break" ELSE "none",
          breaks |-> [b EXCEPT ![addr] = HookIntrAfter(b, addr)],
          while_break |-> IF HookBreakHalts(b, wb, addr) /\ HookArms(wb, addr)
                          THEN Some(TRUE, addr)
                          ELSE wb]
    ELSE IF HookCompletes(wb)
    THEN [stop |-> "completion", breaks |-> b, while_break |-> None]
    ELSE [stop |-> "none", breaks |-> b, while_break |-> wb]

\* A halt at addr counts for every running loop whose address it is
CountHalt(addr) ==
    [k \in 1..Len(stack) |->
        IF stack[k].inloop /\ stack[k].cmds[stack[k].i].addr = addr
        THEN [stack[k] EXCEPT !.halts = @ + 1]
        ELSE stack[k]]

\* The closure given to add_code_hook, invoked before the instruction at ip.
\* It is registered with begin = program.start() and end = 0, which for a
\* load address above 0 is every address.  With verbose set it first reads
\* and decodes the instruction and unwraps both results: decodes is whether
\* the bytes at ip are an instruction the decoder accepts.  The twin is
\* given the same invocation.
CodeHook ==
    /\ emu = "hook"
    /\ \E decodes \in BOOLEAN :
        IF verbose /\ ~decodes
        THEN /\ pc' = "panic"
             /\ emu' = "idle"
             /\ lastStop' = "panic"
             /\ UNCHANGED <<breaks, while_break, visits, completions, stack, targetHit>>
        ELSE LET d == HookDecision(breaks, while_break, ip)
             IN  /\ breaks' = d.breaks
                 /\ while_break' = d.while_break
                 /\ emu' = IF d.stop = "none" THEN "exec" ELSE "idle"
                 /\ lastStop' = IF d.stop = "none" THEN lastStop ELSE d.stop
                 /\ visits' = IF HookHasBreak(breaks, ip)
                               THEN [visits EXCEPT ![ip] = @ + 1]
                               ELSE visits
                 /\ completions' = IF d.stop = "completion"
                                    THEN completions + 1
                                    ELSE completions
                 /\ stack' = IF d.stop = "break" THEN CountHalt(ip) ELSE stack
                 /\ targetHit' = \/ targetHit
                                 \/ /\ d.stop = "break"
                                    /\ while_break # None
                                    /\ while_break[1].addr = ip
                 /\ pc' = pc
    /\ twin' = [breaks |-> HookDecision(twin.breaks, twin.while_break, ip).breaks,
                while_break |->
                    HookDecision(twin.breaks, twin.while_break, ip).while_break]
    /\ ShimIdle
    /\ UNCHANGED <<loader, driver, lines, ast, exited, verbose, ip, limit, retired,
                   starts, reads, startedFrom, progressed, fatalSeen, anyExec>>

\* After an instruction is retired the run goes on, unless the count limit
\* or the until address is reached.
AfterRetire(nxt) ==
    IF limit = 1 THEN "count" ELSE IF nxt = EmuUntil THEN "until" ELSE "none"

\* The engine retires the instruction at ip, which is no software interrupt,
\* and control goes to nxt.
Retire ==
    /\ emu = "exec"
    /\ retired < MaxRetired
    /\ \E nxt \in Addrs :
        /\ ip' = nxt
        /\ lastStop' = AfterRetire(nxt)
        /\ emu' = IF AfterRetire(nxt) = "none" THEN "hook" ELSE "idle"
    /\ retired' = retired + 1
    /\ progressed' = TRUE
    /\ UNCHANGED <<loader, driver, lines, ast, pc, stack, engineData, limit, starts,
                   reads, startedFrom, ghostHook, fatalSeen, anyExec>>
    /\ ShimIdle

\* The engine reports a fault for the instruction at ip (an invalid memory
\* access, an invalid instruction): emu_start returns an error, which is
\* unwrapped.
EngineFault ==
    /\ emu = "exec"
    /\ emu' = "idle"
    /\ lastStop' = "panic"
    /\ pc' = "panic"
    /\ UNCHANGED <<loader, driver, lines, ast, stack, engineData, ip, limit, retired,
                   starts, reads, startedFrom, progressed, ghostHook, fatalSeen,
                   anyExec>>
    /\ ShimIdle

\* Interrupt numbers and AX values the emulated program may use
IntNums == {16, 33}
AxVals == {2304, 9473, 9474, 12288, 13569, 16384, 18944, 18945, 18946, 19456}
\* The DS and DX values it may have loaded before a software interrupt
DataVals == {<<4096, 16>>}
\* The requests of the emulated program: <<number, AX>>.  The hook does not
\* read AX for a number other than 21h.
Requests == ((IntNums \ {33}) \X {0}) \cup ({33} \X AxVals)

\* (an interrupt hook that ignores interrupts other than 21h)
IntrOutcome_Ignore(num, ax) ==
    IF num = 33 /\ ax \div 256 = 76 THEN "exit"
    ELSE IF num = 33 /\ ax \div 256 \notin {37, 48, 53, 64, 74} THEN "exit"
    ELSE IF num = 33 /\ ax = 18944 THEN "panic"
    ELSE "go"
\* (an interrupt hook whose terminate service does not request a halt)
IntrOutcome_TerminateGoes(num, ax) ==
    IF num # 33 THEN "exit"
    ELSE IF ax \div 256 \in {37, 48, 53, 64, 76} THEN "go"
    ELSE IF ax \div 256 = 74 THEN (IF ax = 18945 \/ ax = 18946 THEN "go" ELSE "panic")
    ELSE "exit"
\* The closure given to add_intr_hook: "go" (the run continues), "exit"
\* (exited set, halt requested) or "panic"
IntrOutcome(num, ax) ==
    LET ah == ax \div 256
    IN  IF num = 33
        THEN IF ah = 37 THEN "go"
             ELSE IF ah = 48 THEN "go"
             ELSE IF ah = 53 THEN "go"
             ELSE IF ah = 64 THEN "go"
             ELSE IF ah = 74 THEN (IF ax = 18945 \/ ax = 18946 THEN "go" ELSE "panic")
             ELSE IF ah = 76 THEN "exit"
             ELSE "exit"
        ELSE "exit"

\* The services of the interrupt shim: INT 21h with AH 25h, 30h, 35h, 40h,
\* 4Ch, or AX 4A01h / 4A02h
InMenu(num, ax) ==
    /\ num = 33
    /\ \/ (ax \div 256) \in {37, 48, 53, 64, 76}
       \/ ax \in {18945, 18946}

\* u32::to_le_bytes
ToLeBytes32(v) ==
    <<v % 256, (v \div 256) % 256, (v \div 65536) % 256, (v \div 16777216) % 256>>

\* emu.mem_write(addr, data), on the modelled part of the memory
MemWrite(m, addr, data) ==
    [a \in DOMAIN m |->
        IF addr <= a /\ a < addr + Len(data) THEN data[a - addr + 1] ELSE m[a]]

\* The memory the interrupt hook leaves: AH = 25h writes the handler pointer
\* (cpu.ds * 16 + cpu.dx) as u32 at al * 4.  DS and DX are 16-bit registers,
\* so the value is below 2^21 and the cast to u32 keeps it.
IntrMem(num, ax, ds, dx, m) ==
    IF num = 33 /\ ax \div 256 = 37
    THEN MemWrite(m, (ax % 256) * 4, ToLeBytes32(ds * 16 + dx))
    ELSE m

\* The registers the interrupt hook writes, as <<register, value>> pairs
IntrRegs(num, ax) ==
    LET ah == ax \div 256
        al == ax % 256
    IN  IF num # 33 THEN {}
        ELSE IF ah = 48 THEN {<<"AL", 2>>}
        ELSE IF ah = 53 THEN {<<"BX", al * 4>>, <<"ES", al * 4 + 2>>}
        ELSE IF ah = 74 /\ (ax = 18945 \/ ax = 18946)
             THEN {<<"BX", 0>>, <<"ES", 65535>>, <<"DI", 65535>>}
        ELSE {}

\* The engine retires a software-interrupt instruction at ip: the interrupt
\* hook runs, and control goes to nxt.
Interrupt ==
    /\ emu = "exec"
    /\ retired < MaxRetired
    /\ \E req \in Requests, data \in DataVals, nxt \in Addrs :
        LET num == req[1]
            ax == req[2]
            out == IntrOutcome(num, ax)
        IN  /\ ip' = nxt
            /\ mem' = IntrMem(num, ax, data[1], data[2], mem)
            /\ lastInt' = <<[num |-> num, ax |-> ax, ds |-> data[1], dx |-> data[2],
                             wrote |-> IntrRegs(num, ax)]>>
            /\ fatalSeen' = (fatalSeen \/ ~InMenu(num, ax))
            /\ exited' = (exited \/ out = "exit")
            /\ pc' = IF out = "panic" THEN "panic" ELSE pc
            /\ lastStop' = IF out = "panic" THEN "panic"
                           ELSE IF out = "exit" THEN "exit"
                           ELSE AfterRetire(nxt)
            /\ emu' = IF out = "go" /\ AfterRetire(nxt) = "none" THEN "hook" ELSE "idle"
    /\ retired' = retired + 1
    /\ progressed' = TRUE
    /\ UNCHANGED <<loader, driver, lines, ast, stack, breaks, while_break, verbose, limit,
                   starts, reads, startedFrom, ghostHook, anyExec>>

-----------------------------------------------------------------------------
(* Debugger: the commands.                                                 *)

engineRun == <<emu, limit, starts, startedFrom, progressed, lastStop>>
program == <<ip, retired, fatalSeen>>
input == <<loader, driver, lines, ast, reads>>

\* (a quit that returns to run_commands)
ExecQuit_Returns ==
    /\ AtCommand("Quit")
    /\ stack' = Advance
    /\ anyExec' = TRUE
    /\ ShimIdle
    /\ UNCHANGED <<input, pc, engineData, engineRun, program, ghostHook>>
\* Command::Quit => exit(0)
ExecQuit ==
    /\ AtCommand("Quit")
    /\ pc' = "exit0"
    /\ anyExec' = TRUE
    /\ ShimIdle
    /\ UNCHANGED <<input, stack, engineData, engineRun, program, ghostHook>>

RegisterNames ==
    {<<"a", "x">>, <<"b", "x">>, <<"c", "x">>, <<"d", "x">>, <<"s", "i">>,
     <<"d", "i">>, <<"s", "p">>, <<"b", "p">>, <<"i", "p">>, <<"c", "s">>,
     <<"d", "s">>, <<"e", "s">>, <<"s", "s">>, <<"f", "s">>, <<"g", "s">>}

\* Debugger::print: whether it returns or panics.  The engine maps 8 MiB.
PrintReturns(cmd) ==
    LET parts == SplitWhitespace(cmd)
    IN  IF Len(parts) = 1 THEN TRUE
        ELSE IF Len(parts) < 2 THEN FALSE
        ELSE IF parse_addr(parts[2]).ok THEN parse_addr(parts[2]).val + 2 <= 8388608
        ELSE IF SplitOnce(parts[2], ":").found
             THEN /\ SplitOnce(parts[2], ":").left \in RegisterNames
                  /\ SplitOnce(parts[2], ":").right \in RegisterNames
        ELSE FALSE

\* Command::Print(cmd) => self.print(cmd)
ExecPrint ==
    /\ AtCommand("Print")
    /\ IF PrintReturns(Cur.text)
       THEN pc' = pc /\ stack' = Advance
       ELSE pc' = "panic" /\ stack' = stack
    /\ anyExec' = TRUE
    /\ ShimIdle
    /\ UNCHANGED <<input, engineData, engineRun, program, ghostHook>>

\* Command::Run, Command::Continue => engine.start(); Command::Next =>
\* engine.step()
ExecResume(op, count) ==
    /\ AtCommand(op)
    /\ Resume(count, "emu")
    /\ anyExec' = TRUE
    /\ ShimIdle
    /\ UNCHANGED <<input, stack, engineData, program, ghostHook>>

ExecRun == ExecResume("Run", 0)
ExecContinue == ExecResume("Continue", 0)
ExecNext == ExecResume("Next", 1)

\* The engine call of Run, Continue or Next has returned
EmuReturned ==
    /\ pc = "emu"
    /\ emu = "idle"
    /\ pc' = "fetch"
    /\ stack' = Advance
    /\ UNCHANGED <<input, engineData, engineRun, program, ghostHook, anyExec>>
    /\ ShimIdle

\* Command::Logon / Logoff => engine.set_verbose
ExecSetVerbose(op, v) ==
    /\ AtCommand(op)
    /\ verbose' = v
    /\ stack' = Advance
    /\ anyExec' = TRUE
    /\ ShimIdle
    /\ UNCHANGED <<input, pc, breaks, while_break, exited, engineRun, program, ghostHook>>

ExecLogon == ExecSetVerbose("Logon", TRUE)
ExecLogoff == ExecSetVerbose("Logoff", FALSE)

\* The address Debugger::add_break computes from the second word of the
\* command, with its own copy of the segment:offset rule
BreakAddr(cmd) ==
    LET addr == SplitWhitespace(cmd)[2]
        addrs == SplitOnce(addr, ":")
    IN  IF addrs.found
        THEN LET segment == FromStrRadix16(addrs.left)
                 offset == FromStrRadix16(addrs.right)
             IN  IF ~segment.ok THEN segment
                 ELSE IF ~offset.ok THEN offset
                 ELSE [ok |-> TRUE, val |-> segment.val * 16 + offset.val]
        ELSE FromStrRadix16(addr)

\* Command::Break(cmd) => self.add_break(cmd): the address is unwrapped
ExecBreak ==
    /\ AtCommand("Break")
    /\ IF BreakAddr(Cur.text).ok
       THEN /\ breaks' = AddBreak(breaks, BreakAddr(Cur.text).val)
            /\ twin' = [twin EXCEPT !.breaks = AddBreak(@, BreakAddr(Cur.text).val)]
            /\ visits' = ResetVisits(visits, BreakAddr(Cur.text).val)
            /\ stack' = Advance
            /\ pc' = pc
       ELSE /\ pc' = "panic"
            /\ UNCHANGED <<breaks, twin, visits, stack>>
    /\ anyExec' = TRUE
    /\ ShimIdle
    /\ UNCHANGED <<input, while_break, exited, verbose, engineRun, program,
                   completions, targetHit>>

\* (a registration that keeps the session of an enclosing command)
AddWhileBreak_KeepOuter(wb, addr) == IF wb # None THEN wb ELSE Some(FALSE, addr)
\* Engine::add_while_break: the session it leaves in EngineData.while_break
AddWhileBreak(wb, addr) == Some(FALSE, addr)

\* Command::WhileBreak: engine.add_while_break(addr), then the first
\* self.cont() of the loop
ExecWhileBreak ==
    /\ AtCommand("WhileBreak")
    /\ breaks' = AddBreak(breaks, Cur.addr)
    /\ visits' = ResetVisits(visits, Cur.addr)
    /\ while_break' = AddWhileBreak(while_break, Cur.addr)
    /\ twin' = [breaks |-> AddBreak(twin.breaks, Cur.addr),
                while_break |-> AddWhileBreak(twin.while_break, Cur.addr)]
    /\ completions' = 0
    /\ targetHit' = FALSE
    /\ stack' = SetTop([Top EXCEPT !.inloop = TRUE])
    /\ Resume(0, "loopemu")
    /\ anyExec' = TRUE
    /\ ShimIdle
    /\ UNCHANGED <<input, exited, verbose, program>>

\* (a loop that goes on after any breakpoint halt)
LoopAgain_AnyBreak(addr) == lastStop = "break"
\* The test of the loop: ip.address() == addr
LoopAgain(addr) == ip = addr

\* The loop's self.cont() has returned: run the body when the instruction
\* pointer is at the address, else leave the loop
WhileCheck ==
    /\ pc = "loopemu"
    /\ emu = "idle"
    /\ pc' = "fetch"
    /\ IF LoopAgain(Cur.addr)
       THEN stack' = Append(SetTop([Top EXCEPT !.runs = @ + 1]), Frame(Cur.body))
       ELSE stack' = Advance
    /\ UNCHANGED <<input, engineData, engineRun, program, ghostHook, anyExec>>
    /\ ShimIdle

\* run_commands(body) returns into the loop, which calls self.cont() again
BodyReturn ==
    /\ pc = "fetch"
    /\ Len(stack) > 1
    /\ Top.i > Len(Top.cmds)
    /\ stack' = SubSeq(stack, 1, Len(stack) - 1)
    /\ Resume(0, "loopemu")
    /\ UNCHANGED <<input, engineData, program, ghostHook, anyExec>>
    /\ ShimIdle

\* run_ast returns: run_file is done, repl prompts again
ScriptReturn ==
    /\ pc = "fetch"
    /\ Len(stack) = 1
    /\ Top.i > Len(Top.cmds)
    /\ stack' = <<>>
    /\ pc' = IF driver = "repl" THEN "start" ELSE "done"
    /\ UNCHANGED <<input, engineData, engineRun, program, ghostHook, anyExec>>
    /\ ShimIdle

\* Ast::new(text) then run_ast: a panic of the parser ends the process
Load(text) ==
    /\ ast' = AstNew(text)
    /\ IF AstNew(text).ok
       THEN pc' = "fetch" /\ stack' = <<Frame(AstNew(text).commands)>>
       ELSE pc' = "panic" /\ stack' = stack

\* Debugger::run_file
RunFile ==
    /\ driver = "file"
    /\ pc = "start"
    /\ Load(lines)
    /\ UNCHANGED <<loader, driver, lines, reads, engineData, engineRun, program,
                   ghostHook, anyExec>>
    /\ ShimIdle

\* One round of Debugger::repl: read_line gives one line
ReplRead ==
    /\ driver = "repl"
    /\ pc = "start"
    /\ reads < MaxReads
    /\ reads' = reads + 1
    /\ \E line \in ReplLines : Load(<<line>>)
    /\ UNCHANGED <<loader, driver, lines, engineData, engineRun, program, ghostHook, anyExec>>
    /\ ShimIdle

Next ==
    \/ RunFile
    \/ ReplRead
    \/ ExecQuit
    \/ ExecPrint
    \/ ExecRun
    \/ ExecContinue
    \/ ExecNext
    \/ ExecLogon
    \/ ExecLogoff
    \/ ExecBreak
    \/ ExecWhileBreak
    \/ EmuReturned
    \/ WhileCheck
    \/ BodyReturn
    \/ ScriptReturn
    \/ CodeHook
    \/ Retire
    \/ Interrupt
    \/ EngineFault

Spec == Init /\ [][Next]_vars

\* The parser alone: every script of at most MaxLines lines of ParseLines
InitParse ==
    /\ bytes = <<>>
    /\ header = NoHeader
    /\ driver = "file"
    /\ lines \in Scripts(ParseLines, MaxParseLines)
    /\ InitSession

NextParse == RunFile

SpecParse == InitParse /\ [][NextParse]_vars

\* Address texts: a script is one break command, or one while break command
\* with an empty block, whose address is any text of at most MaxAddrLen of
\* these characters
AddrChars == {"0", "1", "2", "f", ":", "g"}
AddrTexts == UNION {[1..k -> AddrChars] : k \in 0..MaxAddrLen}
W_head == <<"w", "h", "i", "l", "e", " ", "b", "r", "e", "a", "k", " ">>
W_tail == <<" ", "{">>
AddrScripts ==
    {<<K_b_sp \o t>> : t \in AddrTexts} \cup
    {<<W_head \o t \o W_tail, L_close>> : t \in AddrTexts}

InitAddr ==
    /\ bytes = <<>>
    /\ header = NoHeader
    /\ driver = "file"
    /\ lines \in AddrScripts
    /\ InitSession
    /\ ip = 1

NextAddr == RunFile \/ ExecBreak \/ ExecWhileBreak

SpecAddr == InitAddr /\ [][NextAddr]_vars

\* The buffer of tests::parse_header
ParseHeaderBytes ==
    <<77, 90, 86, 0, 132, 0, 0, 0, 32, 0, 249, 2, 255, 255, 130, 16,
      128, 0, 0, 0, 16, 0, 43, 16, 30, 0, 0, 0, 1>>

\* Header buffers: that buffer with any two of its bytes set to any of
\* these values, and its prefixes
ByteVals == {0, 1, 86, 255}
HeaderBuffers ==
    {[k \in 1..Len(ParseHeaderBytes) |->
        IF k = q THEN w ELSE IF k = p THEN v ELSE ParseHeaderBytes[k]] :
            p \in 1..Len(ParseHeaderBytes), q \in 1..Len(ParseHeaderBytes),
            v \in ByteVals, w \in ByteVals}
    \cup {SubSeq(ParseHeaderBytes, 1, n) : n \in 0..Len(ParseHeaderBytes)}

InitHeader ==
    /\ bytes \in HeaderBuffers
    /\ header = NoHeader
    /\ driver = "load"
    /\ lines = <<>>
    /\ InitSession
    /\ ip = 1

\* Header::new(bytes): a slice beyond the end of the buffer panics
HeaderNew ==
    /\ driver = "load"
    /\ pc = "start"
    /\ header = NoHeader
    /\ IF Len(bytes) >= HeaderLen
       THEN header' = <<Header_new(bytes)>> /\ pc' = "done"
       ELSE header' = header /\ pc' = "panic"
    /\ ShimIdle
    /\ UNCHANGED <<bytes, driver, lines, ast, reads, stack, engineData, engineRun,
                   program, ghostHook, anyExec>>

NextHeader == HeaderNew

SpecHeader == InitHeader /\ [][NextHeader]_vars

-----------------------------------------------------------------------------
(* Properties.                                                             *)

\* C1: for a breakpoint registered at A and not registered again in
\* between, the k-th invocation of the code hook at A requests a halt
\* exactly when k is odd, and every invocation flips the sense bit.
C1_SenseBit ==
    [][\A a \in DOMAIN breaks :
         (a \in DOMAIN visits /\ visits'[a] = visits[a] + 1) =>
            /\ (emu' = "idle" /\ lastStop' = "break") <=> (visits'[a] % 2 = 1)
            /\ (emu' = "exec") <=> (visits'[a] % 2 = 0)
            /\ breaks'[a] = ~breaks[a]]_vars

\* A third visit of a breakpoint, which halts
C1_ThirdVisitHalts ==
    \E a \in DOMAIN visits :
        visits[a] = 3 /\ ip = a /\ emu = "idle" /\ lastStop = "break"

\* C2: a run resumed from a halt at a breakpoint does not halt at a
\* breakpoint again before it has retired an instruction, whatever
\* commands were executed while it was halted.
C2_ResumeMakesProgress ==
    (emu = "idle" /\ startedFrom = "break" /\ lastStop = "break") => progressed

\* C3: when a while break command ends, its body has been executed once
\* for every halt of the run at its address while it was active.
C3_BodyPerArrival ==
    (pc = "loopemu" /\ emu = "idle" /\ ip # Cur.addr) => Top.runs = Top.halts

\* C4: while break A { body } registers a loop session at A and resumes the
\* engine; each time the run returns, the body is executed when the halted
\* instruction pointer is A (after which the engine is resumed again), and
\* otherwise the command ends and the next command of the surrounding
\* sequence is the current one; with a first halt elsewhere the body is not
\* executed at all.
C4_WhileLoop ==
    [][/\ (AtCommand("WhileBreak") /\ ~exited) =>
            /\ while_break' = Some(FALSE, Cur.addr)
            /\ Cur.addr \in DOMAIN breaks'
            /\ starts' = starts + 1
            /\ pc' = "loopemu"
            /\ stack'[Len(stack)].runs = 0
       /\ (pc = "loopemu" /\ emu = "idle" /\ ip = Cur.addr) =>
            /\ pc' = "fetch"
            /\ Len(stack') = Len(stack) + 1
            /\ stack'[Len(stack')] = Frame(Cur.body)
            /\ stack'[Len(stack)].inloop
            /\ stack'[Len(stack)].i = Top.i
            /\ stack'[Len(stack)].runs = Top.runs + 1
       /\ (pc = "loopemu" /\ emu = "idle" /\ ip # Cur.addr) =>
            /\ pc' = "fetch"
            /\ Len(stack') = Len(stack)
            /\ stack'[Len(stack)].cmds = Top.cmds
            /\ stack'[Len(stack)].i = Top.i + 1
            /\ ~stack'[Len(stack)].inloop
       /\ (pc = "fetch" /\ Len(stack) > 1 /\ Top.i > Len(Top.cmds) /\ ~exited) =>
            /\ stack' = SubSeq(stack, 1, Len(stack) - 1)
            /\ starts' = starts + 1
            /\ pc' = "loopemu"]_vars

\* The body of a while break command is being executed for the second time
C4_SecondBodyRun ==
    /\ Len(stack) = 2
    /\ stack[1].inloop
    /\ stack[1].runs = 2
    /\ pc = "fetch"

C6_ExitedIsPermanent ==
    [][exited => (exited' /\ emu' = "idle" /\ starts' = starts /\ retired' = retired)]_vars

\* A resume command was given after the program had exited
C6_ResumeAfterExit ==
    exited /\ pc = "exit0" /\ stack # <<>> /\ Cur.op \in {"Run", "Continue", "Next", "WhileBreak"}

\* C7: after the program has exited every command ends the session and
\* changes no session state.
C7_CommandAfterExitIsNoOp ==
    [][(exited /\ pc = "fetch" /\ stack # <<>> /\ ~Top.inloop /\ Top.i <= Len(Top.cmds)) =>
          (pc' = "exit0" /\ UNCHANGED <<breaks, while_break, verbose>>)]_vars

\* A line that is neither blank, nor a comment, nor the closing brace of a block
IsCommandLine(l) ==
    /\ Trim(l) # <<>>
    /\ Head(Trim(l)) # "#"
    /\ Trim(l) # K_rbrace

\* The commands of a parsed sequence, those of the nested bodies included
RECURSIVE CountCommands(_)
CountCommands(cmds) ==
    IF cmds = <<>> THEN 0
    ELSE 1 + CountCommands(Head(cmds).body) + CountCommands(Tail(cmds))

\* C8: every line of a parsed script that is neither blank nor a comment
\* (nor a closing brace) contributes exactly one command.
C8_EveryLineOneCommand ==
    (pc # "start" /\ ast.ok) =>
        CountCommands(ast.commands) =
            Cardinality({i \in 1..Len(lines) : IsCommandLine(lines[i])})

\* The number of blocks open at the end of a script whose lines are all of
\* a valid form (-1 for a script with an invalid line or a stray brace)
RECURSIVE OpenBlocks(_, _)
OpenBlocks(ls, depth) ==
    IF ls = <<>> THEN depth
    ELSE LET l == Trim(Head(ls))
         IN  IF l = <<>> \/ Head(l) = "#" THEN OpenBlocks(Tail(ls), depth)
             ELSE IF l = K_rbrace
                  THEN IF depth > 0 THEN OpenBlocks(Tail(ls), depth - 1) ELSE -1
             ELSE IF SimpleCommand(l).op # "none" THEN OpenBlocks(Tail(ls), depth)
             ELSE IF StartsWith(l, K_while) /\ WhileHeaderError(SplitWhitespace(l)) = ""
                  THEN OpenBlocks(Tail(ls), depth + 1)
             ELSE -1

\* C9: a script with a while block that is still open at the end of the
\* input fails with the block-termination error.
C9_OpenBlockIsBlockEndError ==
    (pc # "start" /\ OpenBlocks(lines, 0) > 0) => (~ast.ok /\ ast.err = "block_end")

\* C10: an interrupt outside the supported services ends the session: the
\* run halts with exited set, or the process panics, and afterwards no
\* instruction is retired and the engine is not started again.
C10_UnsupportedInterruptIsFatal ==
    [][fatalSeen' =>
          /\ exited' \/ pc' = "panic"
          /\ emu' = "idle"
          /\ fatalSeen => (retired' = retired /\ starts' = starts)]_vars

\* A resume command was given after an unsupported interrupt
C10_ResumeAfterFatal ==
    fatalSeen /\ pc = "exit0"

\* The services of the interrupt shim other than terminate: set vector
\* (AH 25h), DOS version (30h), get vector (35h), console write (40h) and
\* the allocation queries AX 4A01h and 4A02h
IsOtherService(i) ==
    /\ i.num = 33
    /\ \/ (i.ax \div 256) \in {37, 48, 53, 64}
       \/ i.ax \in {18945, 18946}

IsTerminate(i) == i.num = 33 /\ i.ax \div 256 = 76

\* C11: the terminate service sets exited and halts the run, which returns
\* with exited set; every other supported service leaves exited false and
\* the run goes on (up to the count limit and the until address).
C11_TerminateHalts ==
    [][lastInt' # NoInt =>
          /\ IsTerminate(lastInt'[1]) =>
                (exited' /\ emu' = "idle" /\ lastStop' = "exit")
          /\ IsOtherService(lastInt'[1]) =>
                /\ ~exited'
                /\ pc' = pc
                /\ lastStop' = AfterRetire(ip')
                /\ (emu' = "hook") <=> (AfterRetire(ip') = "none")]_vars

\* A run in which a set-vector request went on and a terminate request
\* then ended it
C11_TerminatedAfterService ==
    /\ lastInt # NoInt
    /\ IsTerminate(lastInt[1])
    /\ exited
    /\ emu = "idle"
    /\ starts = 1
    /\ mem[4] # 0

\* C12: quit ends the process wherever it is executed, also in the body of a
\* while break command at any depth: the step that executes it ends the
\* process without returning to run_commands or starting the engine, and
\* once the process has ended nothing else happens.
C12_QuitEndsProcess ==
    [][/\ AtCommand("Quit") =>
            (pc' = "exit0" /\ stack' = stack /\ starts' = starts /\ emu' = emu)
       /\ pc = "exit0" => UNCHANGED vars]_vars

\* quit was executed in the body of a while break command that is in the
\* body of another, with commands left in both bodies and in the script
C12_QuitInNestedBody ==
    /\ pc = "exit0"
    /\ Len(stack) = 3
    /\ Cur.op = "Quit"
    /\ stack[1].inloop /\ stack[1].i < Len(stack[1].cmds)
    /\ stack[2].inloop /\ stack[2].i < Len(stack[2].cmds)

\* The registry after a breakpoint at a has been inserted: one entry for a,
\* which is armed, and the other entries as they were
Inserted(old, new, a) ==
    /\ DOMAIN new = DOMAIN old \cup {a}
    /\ new[a] = FALSE
    /\ \A x \in DOMAIN old \ {a} : new[x] = old[x]
    /\ Cardinality(DOMAIN new) =
         Cardinality(DOMAIN old) + (IF a \in DOMAIN old THEN 0 ELSE 1)

\* C13: the registry holds one breakpoint per address: a break or while
\* break command for an address that has a breakpoint replaces the entry and
\* adds none, and the entry it leaves is armed whatever the sense bit of the
\* old one was.
C13_InsertReplaces ==
    [][/\ (AtCommand("Break") /\ BreakAddr(Cur.text).ok) =>
            Inserted(breaks, breaks', BreakAddr(Cur.text).val)
       /\ AtCommand("WhileBreak") => Inserted(breaks, breaks', Cur.addr)]_vars

\* The breakpoint the run is halted at, whose sense bit the halt had
\* flipped, has been replaced by a break command
C13_ReplacedDisarmed ==
    /\ lastStop = "break"
    /\ emu = "idle"
    /\ pc = "fetch"
    /\ ip \in DOMAIN breaks
    /\ visits[ip] = 0
    /\ ~breaks[ip]
    /\ while_break = None

\* C14: a breakpoint stays in the registry once it is there, whichever
\* command added it and also after the while break command that added it
\* has ended; outside the address the run is halted at every breakpoint is
\* armed, and a hook invocation at an armed breakpoint halts the run
\* whether or not a loop session is registered.
C14_BreakpointPersists ==
    [][/\ DOMAIN breaks \subseteq DOMAIN breaks'
       /\ \A a \in DOMAIN breaks : breaks[a] => ip = a
       /\ (emu = "hook" /\ ip \in DOMAIN breaks /\ ~breaks[ip]) =>
            \/ emu' = "idle" /\ lastStop' = "break"
            \/ pc' = "panic"]_vars

\* A continue of the script, given after a while break 1 command has ended,
\* has halted at the breakpoint which that command added
C14_HaltAfterWhileEnded ==
    /\ driver = "file"
    /\ Len(stack) = 1
    /\ Top.i > 1
    /\ Top.cmds[1].op = "WhileBreak" /\ Top.cmds[1].addr = 1
    /\ \A k \in 1..Len(Top.cmds) : Top.cmds[k].op # "Break"
    /\ Top.i <= Len(Top.cmds)
    /\ Cur.op = "Continue"
    /\ pc = "emu"
    /\ emu = "idle"
    /\ lastStop = "break"
    /\ ip = 1

\* C15: logging does not affect the halt decision: at every invocation of
\* the code hook the session requests a halt exactly when its twin, which
\* never logs, requests one, and for the same reason, and both are left
\* with the same sense bits and the same loop session.
C15_LoggingNeverAffects ==
    [][emu = "hook" =>
          LET t == HookDecision(twin.breaks, twin.while_break, ip)
          IN  /\ (emu' = "idle") <=> (t.stop # "none")
              /\ (emu' = "idle") => (lastStop' = t.stop)
              /\ breaks' = twin'.breaks
              /\ while_break' = twin'.while_break]_vars

\* The 32-bit little-endian value in the slot of vector n
SlotValue(m, n) ==
    m[4 * n] + 256 * m[4 * n + 1] + 65536 * m[4 * n + 2] + 16777216 * m[4 * n + 3]

\* The value v is what the registers written hold: ES:BX as the two words
\* of the slot, or as a segment and an offset
ReturnsPointer(wrote, v) ==
    \E bx \in 0..65535, es \in {r[2] : r \in {w \in wrote : w[1] = "ES"}} :
        /\ <<"BX", bx>> \in wrote
        /\ bx + 65536 * es = v \/ es * 16 + bx = v

\* C16: set vector n writes the handler pointer to the 4-byte slot of
\* vector n and leaves the other slots as they were; get vector n, once a
\* set has stored a pointer in slot n, returns that pointer and leaves the
\* memory alone.
C16_VectorRoundTrip ==
    [][lastInt' # NoInt =>
          LET i == lastInt'[1]
              n == i.ax % 256
          IN  /\ (i.num = 33 /\ i.ax \div 256 = 37) =>
                    /\ SlotValue(mem', n) = i.ds * 16 + i.dx
                    /\ \A a \in DOMAIN mem : (a \div 4) # n => mem'[a] = mem[a]
              /\ (i.num = 33 /\ i.ax \div 256 = 53 /\ SlotValue(mem, n) # 0) =>
                    /\ ReturnsPointer(i.wrote, SlotValue(mem, n))
                    /\ mem' = mem]_vars

\* The address text of a one-command script
AddrText ==
    IF StartsWith(lines[1], K_b_sp)
    THEN SubSeq(lines[1], Len(K_b_sp) + 1, Len(lines[1]))
    ELSE SubSeq(lines[1], Len(W_head) + 1, Len(lines[1]) - Len(W_tail))

IsWhileScript == Len(lines) = 2

\* A text of hexadecimal digits and its value, digit by weight
IsHex(t) == t # <<>> /\ \A k \in 1..Len(t) : HexVal(t[k]) < 16

RECURSIVE Pow16(_)
Pow16(n) == IF n = 0 THEN 1 ELSE 16 * Pow16(n - 1)

RECURSIVE WeightedSum(_, _)
WeightedSum(t, k) ==
    IF k > Len(t) THEN 0
    ELSE HexVal(t[k]) * Pow16(Len(t) - k) + WeightedSum(t, k + 1)

HexNumber(t) == WeightedSum(t, 1)

\* The texts h and s:o of the address rule and the linear address they denote
Colons(t) == {k \in 1..Len(t) : t[k] = ":"}
IsAddress(t) ==
    \/ IsHex(t)
    \/ /\ Cardinality(Colons(t)) = 1
       /\ \E k \in Colons(t) :
            IsHex(SubSeq(t, 1, k - 1)) /\ IsHex(SubSeq(t, k + 1, Len(t)))
Linear(t) ==
    IF Colons(t) = {} THEN HexNumber(t)
    ELSE LET k == CHOOSE c \in Colons(t) : TRUE
         IN  HexNumber(SubSeq(t, 1, k - 1)) * 16 + HexNumber(SubSeq(t, k + 1, Len(t)))

\* C17: an address text h denotes the linear address h and s:o denotes
\* s * 16 + o, in hexadecimal, for a break command and for a while break
\* command alike: the breakpoint either registers is at that address, the
\* loop session of a while break is at that address, and a text that is an
\* address is never refused.
C17_AddressRule ==
    /\ DOMAIN breaks # {} =>
            (IsAddress(AddrText) /\ DOMAIN breaks = {Linear(AddrText)})
    /\ while_break # None => while_break[1].addr = Linear(AddrText)
    /\ (pc # "start" /\ IsAddress(AddrText)) => (ast.ok /\ pc # "panic")
    /\ (pc # "start" /\ IsAddress(AddrText) /\ IsWhileScript) =>
            ast.commands[1].addr = Linear(AddrText)
    /\ (anyExec /\ IsAddress(AddrText)) => DOMAIN breaks = {Linear(AddrText)}

\* break 10:20 has registered a breakpoint at 0x120
C17_SegmentOffsetBreak ==
    /\ lines = <<K_b_sp \o <<"1", "0", ":", "2", "0">> >>
    /\ DOMAIN breaks = {288}
    /\ pc = "fetch"

\* The 1-based number of the first line from line k on that matches no
\* command form, with depth blocks open before line k; 0 when there is none
RECURSIVE FirstBadLine(_, _, _)
FirstBadLine(ls, k, depth) ==
    IF k > Len(ls) THEN 0
    ELSE LET l == Trim(ls[k])
         IN  IF l = <<>> \/ Head(l) = "#" THEN FirstBadLine(ls, k + 1, depth)
             ELSE IF l = K_rbrace
                  THEN IF depth > 0 THEN FirstBadLine(ls, k + 1, depth - 1) ELSE k
             ELSE IF SimpleCommand(l).op # "none" THEN FirstBadLine(ls, k + 1, depth)
             ELSE IF StartsWith(l, K_while) /\ WhileHeaderError(SplitWhitespace(l)) = ""
                  THEN FirstBadLine(ls, k + 1, depth + 1)
             ELSE k

\* C18: a script with a line that matches no command form (a closing brace
\* outside a block and a malformed while header included) fails to parse,
\* and the error names the 1-based number of that line, wherever the line
\* lies.
C18_BadLineReported ==
    (pc # "start" /\ FirstBadLine(lines, 1, 0) > 0) =>
        /\ ~ast.ok
        /\ ast.err # "block_end"
        /\ ast.line = FirstBadLine(lines, 1, 0)

\* The byte offset of each header field in the file
FieldOffset ==
    [last_page_bytes |-> 2, pages_in_file |-> 4, relocations |-> 6,
     header_size |-> 8, min_allocation |-> 10, max_allocation |-> 12,
     initial_ss |-> 14, initial_sp |-> 16, checksum |-> 18, initial_ip |-> 20,
     initial_cs |-> 22, relocation_table |-> 24, overlay |-> 26]

\* C19: each of the 13 fields of a parsed header is the little-endian
\* 16-bit integer at the offset of the field in the buffer, whatever the
\* other bytes of the buffer are.
C19_HeaderFields ==
    header # NoHeader =>
        /\ DOMAIN header[1] = DOMAIN FieldOffset
        /\ \A f \in DOMAIN FieldOffset :
              header[1][f] =
                  bytes[FieldOffset[f] + 1] + 256 * bytes[FieldOffset[f] + 2]

\* The buffer of tests::parse_header has been parsed
C19_TestHeaderParsed ==
    /\ bytes = ParseHeaderBytes
    /\ header # NoHeader
    /\ header[1].last_page_bytes = 86
    /\ header[1].min_allocation = 761
    /\ header[1].initial_cs = 4139

\* The loop session is armed for completion
Armed(wb) == wb # None /\ wb[1].started

\* C20: a loop session becomes armed only by a hook invocation that halts
\* the run at the target of the session; a completion stop happens only at
\* an address without a breakpoint while the session is armed, clears the
\* session and comes after a halt at the target since the session was
\* registered; a session that is registered and not armed does not halt
\* the run at an address without a breakpoint.
C20_ArmedByTargetHalt ==
    [][/\ (Armed(while_break') /\ ~Armed(while_break)) =>
            /\ emu = "hook"
            /\ while_break # None
            /\ ip = while_break[1].addr
            /\ ip \in DOMAIN breaks
            /\ emu' = "idle" /\ lastStop' = "break"
            /\ while_break' = Some(TRUE, ip)
       /\ completions' = completions + 1 =>
            /\ emu = "hook"
            /\ Armed(while_break)
            /\ ip \notin DOMAIN breaks
            /\ targetHit
            /\ while_break' = None
            /\ emu' = "idle" /\ lastStop' = "completion"
       /\ Armed(while_break) => targetHit
       /\ (emu = "hook" /\ while_break # None /\ ~Armed(while_break)
              /\ ip \notin DOMAIN breaks) =>
            (emu' = "exec" \/ pc' = "panic")]_vars

\* The first run of a while break command has passed an instruction away
\* from the target without halting and has then halted at the target, which
\* armed the session
C20_ArmedAfterPassing ==
    /\ Armed(while_break)
    /\ targetHit
    /\ pc = "loopemu"
    /\ emu = "idle"
    /\ lastStop = "break"
    /\ ip = while_break[1].addr
    /\ DOMAIN breaks = {ip}
    /\ visits[ip] = 1
    /\ starts = 1
    /\ retired >= 1

-----------------------------------------------------------------------------
\* No run_commands call is inside the loop of a WhileBreak command
NoLoopRunning == \A k \in 1..Len(stack) : ~stack[k].inloop

\* C21: once a while-break command has ended, no loop session is active: a
\* run, continue or next issued outside every while command is never halted
\* by a completion stop, and no hook invocation of such a run arms a session.
C21_NoSessionOutsideWhile ==
    [][(emu = "hook" /\ pc = "emu" /\ NoLoopRunning) =>
          /\ lastStop' # "completion"
          /\ ~(Armed(while_break') /\ ~Armed(while_break))]_vars

-----------------------------------------------------------------------------
\* The loop of the WhileBreak command of frame k is running
LoopOf(k) == k \in 1..Len(stack) /\ stack[k].inloop
TargetOf(k) == stack[k].cmds[stack[k].i].addr

\* C22: EngineData holds at most one loop session.  A while-break command
\* replaces the session that is registered, also the one of an enclosing
\* while-break command, with an unarmed session for its own address; after
\* that the session changes only in the code hook, which arms it for the
\* address it has or removes it, so the end of the inner command does not
\* bring the enclosing session back.
C22_OneSessionReplaced ==
    [][/\ Len(while_break) <= 1 /\ Len(while_break') <= 1
       /\ AtCommand("WhileBreak") => while_break' = Some(FALSE, Cur.addr)
       /\ (~AtCommand("WhileBreak") /\ while_break' # while_break) =>
             /\ emu = "hook"
             /\ while_break # None
             /\ \/ while_break' = None
                \/ while_break' = Some(TRUE, while_break[1].addr)
       /\ (pc = "loopemu" /\ emu = "idle" /\ Len(stack) > 1) =>
             while_break' = while_break]_vars

\* The inner command of a nested pair has ended at a halt at the enclosing
\* command's address; the body of the enclosing command goes on with the
\* inner command's session registered.
C22_InnerEndedOuterRunning ==
    /\ Len(stack) = 2 /\ LoopOf(1) /\ TargetOf(1) = 1
    /\ pc = "fetch" /\ ~Top.inloop /\ Top.i = 2
    /\ Top.cmds[1].op = "WhileBreak" /\ Top.cmds[1].addr = 2
    /\ lastStop = "break" /\ ip = 1
    /\ while_break = Some(FALSE, 2)

-----------------------------------------------------------------------------
\* The returns of a run that a hook requested: emu_stop in the code hook
\* (breakpoint, loop completion) or in the interrupt hook (termination)
HookHalts == {"break", "completion", "exit"}

\* C23: next starts the engine at the current instruction pointer with a
\* count limit of one, retires at most one instruction, and returns having
\* retired one unless a hook requested a halt; run and continue start it at
\* the current instruction pointer with no count limit and return only when
\* a hook requested a halt.
C23_ResumeLimits ==
    [][/\ (AtCommand("Next") /\ pc' = "emu") => (limit' = 1 /\ ip' = ip)
       /\ ((AtCommand("Run") \/ AtCommand("Continue")) /\ pc' = "emu") =>
             (limit' = 0 /\ ip' = ip)
       /\ (emu = "exec" /\ limit = 1 /\ retired' = retired + 1) =>
             (~progressed /\ emu' = "idle")
       /\ (pc = "emu" /\ emu = "idle" /\ pc' = "fetch") =>
             IF limit = 1
             THEN progressed \/ lastStop \in HookHalts
             ELSE lastStop \in HookHalts]_vars

-----------------------------------------------------------------------------
\* The script has a line that is a parse error: a line that matches no
\* command form, or a while block that is open at the end
HasParseError(ls) == FirstBadLine(ls, 1, 0) > 0 \/ OpenBlocks(ls, 0) > 0

\* C24: in batch mode a script with a line that is a parse error executes
\* no command, the well-formed ones before that line included, and the
\* engine is never started.
C24_ParsedBeforeExecuted ==
    (driver = "file" /\ HasParseError(lines)) =>
        (~anyExec /\ starts = 0 /\ retired = 0)

=============================================================================
